---- MODULE Spec2Model ----
(***************************************************************************)
(* A model of zotero2notion (src/main.py): a one-directional sync of a     *)
(* Zotero library (the source) into a Notion database (the mirror).        *)
(*                                                                         *)
(* The Notion database and the Zotero library are the two remote           *)
(* services.  A run of the script is the sequence of steps of __main__:    *)
(* get_notion_records, get_zotero_records, process_records (index build,   *)
(* reconciliation loop, find_removed_records).  Every remote call can      *)
(* raise; nothing in main.py catches an exception, so a raise ends the     *)
(* run.                                                                    *)
(***************************************************************************)
EXTENDS Integers, Sequences, FiniteSets, TLC

(***************************************************************************)
(* Bounds of the model.                                                    *)
(***************************************************************************)
Keys == {"K1", "K2"}          \* Zotero item keys
Versions == {1, 2}            \* Zotero versions; the script only tests them for equality
MaxInitPages == 2             \* pages of the Notion database before the first run
PageSize == 1                 \* results per response of the Notion query endpoint
MaxTags == 3                  \* tags of a Zotero record (tag-filter specification)

NoKey == "-"                  \* "no key" in a logged call

VARIABLES
    library,           \* the Zotero library: sequence of items, in the order zot.top() lists them
    mirror,            \* the Notion database: sequence of pages, in the order the query endpoint lists them
    pc,                \* position of the script
    notion_response,   \* get_notion_records: the last response
    notion_records,    \* get_notion_records: the accumulated results / __main__'s notion_records
    zotero_records,    \* __main__'s zotero_records
    existing_records,  \* process_records: the index (a dict, kept in insertion order)
    i,                 \* process_records: position of the loop over zotero_records
    j,                 \* find_removed_records: position of the loop over existing_records.items()
    deleted_records,   \* find_removed_records: deleted_records
    reported,          \* find_removed_records: the keys printed at the end
    log,               \* the remote calls (and the index build) of the current run, in order
    failed,            \* an exception was raised in the current run
    mirror0,           \* the Notion database when the current run started
    previous,          \* the run before this one: "rerun" (it ended without exception and the
                       \* library is as it was then), "retry" (it was aborted) or "other"
    tagsIn,            \* tag-filter specification: record_data["tags"]
    tagsOut,           \* tag-filter specification: properties["Tags"]["multi_select"]
    tagsDone           \* tag-filter specification: create_post_objects has run

vars == <<library, mirror, pc, notion_response, notion_records, zotero_records,
          existing_records, i, j, deleted_records, reported, log, failed, mirror0,
          previous, tagsIn, tagsOut, tagsDone>>

runVars == <<notion_response, notion_records, zotero_records, existing_records, i, j,
             deleted_records, reported>>
tagVars == <<tagsIn, tagsOut, tagsDone>>

(***************************************************************************)
(* Sequences helpers.                                                      *)
(***************************************************************************)
Min(a, b) == IF a < b THEN a ELSE b

SeqsUpTo(S, n) == UNION {[1..m -> S] : m \in 0..n}

(***************************************************************************)
(* Record mapper: create_post_objects.                                     *)
(***************************************************************************)
\* A Zotero tag is a dict with "tag" and, for automatic tags, "type".
ManualTag(name) == [tag |-> name]
AutomaticTag(name) == [tag |-> name, type |-> 1]

\* A variant of the tag filter that lets "_tablet_modified" through.
RECURSIVE FilterTags_KeepModified(_)
FilterTags_KeepModified(tags) ==
    IF tags = <<>> THEN <<>>
    ELSE LET tag == Head(tags)
             rest == FilterTags_KeepModified(Tail(tags))
         IN  IF "type" \notin DOMAIN tag /\ tag.tag # "_tablet"
             THEN <<[name |-> tag.tag]>> \o rest
             ELSE rest

\* The loop of lines 55-62: tags += [{"name": tag["tag"]}] for the tags kept.
RECURSIVE FilterTags(_)
FilterTags(tags) ==
    IF tags = <<>> THEN <<>>
    ELSE LET tag == Head(tags)
             rest == FilterTags(Tail(tags))
         IN  IF /\ "type" \notin DOMAIN tag
                /\ tag.tag # "_tablet"
                /\ tag.tag # "_tablet_modified"
             THEN <<[name |-> tag.tag]>> \o rest
             ELSE rest

\* A variant of the mapper that leaves "Zotero: Version" unset (0).
create_post_objects_NoVersion(record) ==
    [Tags |-> FilterTags(record.data.tags),
     ZoteroKey |-> <<record.data.key>>,
     ZoteroVersion |-> 0]

\* The properties the reconciliation depends on: "Tags", "Zotero: Key"
\* (a rich_text list of one text object) and "Zotero: Version".
create_post_objects(record) ==
    [Tags |-> FilterTags(record.data.tags),
     ZoteroKey |-> <<record.data.key>>,
     ZoteroVersion |-> record.data.version]

(***************************************************************************)
(* The Notion service.                                                     *)
(***************************************************************************)
\* A page, as far as the script reads or overwrites it: id, the rich_text of
\* "Zotero: Key" (empty when the property is not filled), the number of
\* "Zotero: Version", the names of "Tags".  The icon of a page is never read
\* and is kept in the log of the calls only.
Page(id, rich, version, tags) ==
    [id |-> id, ZoteroKey |-> rich, ZoteroVersion |-> version, Tags |-> tags]

\* databases.query: one page of results starting at the cursor.
DatabasesQuery(db, cursor) ==
    LET last == Min(cursor + PageSize - 1, Len(db))
        more == last < Len(db)
    IN  [results |-> SubSeq(db, cursor, last),
         has_more |-> more,
         next_cursor |-> IF more THEN last + 1 ELSE 0]

\* pages.create(parent, properties, children): a new page at the end.
PagesCreate(db, properties) ==
    Append(db, Page(Len(db) + 1, properties.ZoteroKey, properties.ZoteroVersion,
                    properties.Tags))

\* pages.update(page_id, properties): the properties given are overwritten,
\* the others are kept.
PagesUpdate(db, page_id, properties) ==
    [n \in DOMAIN db |->
        IF db[n].id = page_id
        THEN [id |-> db[n].id,
              ZoteroKey |-> IF "ZoteroKey" \in DOMAIN properties
                            THEN properties.ZoteroKey ELSE db[n].ZoteroKey,
              ZoteroVersion |-> IF "ZoteroVersion" \in DOMAIN properties
                                THEN properties.ZoteroVersion ELSE db[n].ZoteroVersion,
              Tags |-> IF "Tags" \in DOMAIN properties
                       THEN properties.Tags ELSE db[n].Tags]
        ELSE db[n]]

\* The arguments of the flag update of lines 163-172.
DeletedProperties == [Tags |-> <<[name |-> "Deleted from Zotero"]>>]
DeletedIcon == "cross_mark"

(***************************************************************************)
(* Mirror index builder: get_existing_notion_records.                      *)
(***************************************************************************)
\* record["properties"]["Zotero: Key"]["rich_text"][0] raises IndexError on
\* an empty rich_text.
HasKey(record) == Len(record.ZoteroKey) >= 1

PlainText(record) == record.ZoteroKey[1]

IndexOfKey(dict, key) ==
    IF \E n \in DOMAIN dict : dict[n].key = key
    THEN CHOOSE n \in DOMAIN dict : dict[n].key = key
    ELSE 0

\* existing_records[key] = value on a dict that keeps insertion order: a
\* key already present keeps its place and takes the new value.
DictSet(dict, key, value) ==
    LET n == IndexOfKey(dict, key)
        item == [key |-> key, page_id |-> value.page_id, version |-> value.version]
    IN  IF n = 0 THEN Append(dict, item) ELSE [dict EXCEPT ![n] = item]

RECURSIVE IndexLoop(_, _)
IndexLoop(dict, records) ==
    IF records = <<>> THEN [raised |-> FALSE, dict |-> dict]
    ELSE LET record == Head(records)
         IN  IF ~HasKey(record) THEN [raised |-> TRUE, dict |-> dict]
             ELSE IndexLoop(DictSet(dict, PlainText(record),
                                    [page_id |-> record.id,
                                     version |-> record.ZoteroVersion]),
                            Tail(records))

\* A variant of the index builder that passes over the pages without a key.
RECURSIVE get_existing_notion_records_Skip(_)
get_existing_notion_records_Skip(records) ==
    IF records = <<>> THEN [raised |-> FALSE, dict |-> <<>>]
    ELSE LET rest == get_existing_notion_records_Skip(
                         SubSeq(records, 1, Len(records) - 1))
             record == records[Len(records)]
         IN  IF ~HasKey(record) THEN rest
             ELSE [raised |-> FALSE,
                   dict |-> DictSet(rest.dict, PlainText(record),
                                    [page_id |-> record.id,
                                     version |-> record.ZoteroVersion])]

get_existing_notion_records(records) == IndexLoop(<<>>, records)

DictKeys(dict) == {dict[n].key : n \in DOMAIN dict}

DictGet(dict, key) == dict[IndexOfKey(dict, key)]

(***************************************************************************)
(* Reconciler: the decision of process_records, lines 235-250.             *)
(***************************************************************************)
\* Variants of the decision: an update only for a newer source version; no
\* update at all; a create where an update is due.
Decide_OnlyNewer(record, dict) ==
    IF record.data.key \notin DictKeys(dict) THEN "create"
    ELSE IF record.data.version > DictGet(dict, record.data.key).version THEN "update"
    ELSE "noop"

Decide_NeverUpdate(record, dict) ==
    IF record.data.key \notin DictKeys(dict) THEN "create" ELSE "noop"

Decide_CreateOnChange(record, dict) ==
    IF record.data.key \notin DictKeys(dict) THEN "create"
    ELSE IF record.data.version # DictGet(dict, record.data.key).version THEN "create"
    ELSE "noop"

Decide(record, dict) ==
    IF record.data.key \notin DictKeys(dict) THEN "create"
    ELSE IF record.data.version # DictGet(dict, record.data.key).version THEN "update"
    ELSE "noop"

\* find_removed_records, line 154 and line 161.
KeysInZotero(records) == {records[n].key : n \in DOMAIN records}

\* A variant of the test of line 161 that takes every index entry as removed.
IsRemoved_Always(key, keys_in_zotero) == TRUE

IsRemoved(key, keys_in_zotero) == key \notin keys_in_zotero

(***************************************************************************)
(* The log of a run.                                                       *)
(***************************************************************************)
\* op: "query", "zotero", "index", "create", "update", "flag"; page: the
\* page id (the cursor for a query); raised: the call raised; applied: the
\* service carried the write out (a write that raised may or may not have
\* been carried out).
Call(op, key, page, properties, icon, raised, applied) ==
    [op |-> op, key |-> key, page |-> page, properties |-> properties, icon |-> icon,
     raised |-> raised, applied |-> applied]

NoProperties == [none |-> TRUE]

\* A variant in which the exception is caught and the script goes on.
Raise_Swallowed(at) == at

\* An exception propagates out of every function: nothing catches it.
Raise(at) == "aborted"

\* A variant of the order of the statements: find_removed_records is called
\* before the loop of process_records.
NextStatement_FlagFirst(at) ==
    CASE at = "get_notion_records" -> "get_zotero_records"
      [] at = "get_zotero_records" -> "get_existing_notion_records"
      [] at = "get_existing_notion_records" -> "find_removed_records"
      [] at = "find_removed_records" -> "reconcile"
      [] at = "reconcile" -> "done"

\* The statements of __main__ (lines 266-271) and of process_records
\* (lines 227, 229, 252) in order.
NextStatement(at) ==
    CASE at = "get_notion_records" -> "get_zotero_records"
      [] at = "get_zotero_records" -> "get_existing_notion_records"
      [] at = "get_existing_notion_records" -> "reconcile"
      [] at = "reconcile" -> "find_removed_records"
      [] at = "find_removed_records" -> "done"

(***************************************************************************)
(* Inputs.                                                                 *)
(***************************************************************************)
\* The tags the library holds for an item: a manual tag, an automatic tag
\* and a Zotfile tag.
LibraryTags(key) == <<ManualTag(key), AutomaticTag("auto"), ManualTag("_tablet")>>

Item(key, version) ==
    [key |-> key, data |-> [key |-> key, version |-> version, tags |-> LibraryTags(key)]]

\* Zotero keys are unique in a library.
Libraries ==
    {[n \in DOMAIN ks |-> Item(ks[n], vs[n])] :
        <<ks, vs>> \in UNION {{kv \in [1..m -> Keys] \X [1..m -> Versions] :
                                  \A a, b \in 1..m : kv[1][a] = kv[1][b] => a = b}
                              : m \in 0..Cardinality(Keys)}}

\* A database before the first run: pages this script created earlier, and
\* pages whose "Zotero: Key" is empty.
InitialPages ==
    {<<<<k>>, v, FilterTags(LibraryTags(k))>> : k \in Keys, v \in Versions}
    \cup {<<<<>>, 1, <<>>>>}

InitialMirrors ==
    {[n \in DOMAIN ps |-> Page(n, ps[n][1], ps[n][2], ps[n][3])] :
        ps \in SeqsUpTo(InitialPages, MaxInitPages)}

TagsIdle == /\ tagsIn = <<>> /\ tagsOut = <<>> /\ tagsDone = FALSE

Init ==
    /\ library \in Libraries
    /\ mirror \in InitialMirrors
    /\ pc = "idle"
    /\ notion_response = [has_more |-> FALSE, next_cursor |-> 0]
    /\ notion_records = <<>>
    /\ zotero_records = <<>>
    /\ existing_records = <<>>
    /\ i = 1
    /\ j = 1
    /\ deleted_records = <<>>
    /\ reported = <<>>
    /\ log = <<>>
    /\ failed = FALSE
    /\ mirror0 = mirror
    /\ previous = "other"
    /\ TagsIdle

(***************************************************************************)
(* The script.                                                             *)
(***************************************************************************)
\* python main.py.  Between two runs the user may have edited the library.
StartRun ==
    /\ pc \in {"idle", "done", "aborted"}
    /\ \E edited \in Libraries :
        /\ library' = edited
        /\ previous' = CASE pc = "aborted" -> "retry"
                          [] pc = "done" /\ ~failed /\ edited = library -> "rerun"
                          [] OTHER -> "other"
    /\ pc' = "get_notion_records"
    /\ notion_response' = [has_more |-> FALSE, next_cursor |-> 0]
    /\ notion_records' = <<>>
    /\ zotero_records' = <<>>
    /\ existing_records' = <<>>
    /\ i' = 1
    /\ j' = 1
    /\ deleted_records' = <<>>
    /\ reported' = <<>>
    /\ log' = <<>>
    /\ failed' = FALSE
    /\ mirror0' = mirror
    /\ UNCHANGED <<mirror, tagVars>>

\* An exception ends the run where it is raised.
Abort(call) ==
    /\ log' = Append(log, call)
    /\ failed' = TRUE
    /\ pc' = Raise(pc)

\* get_notion_records, lines 187-190: the initial query.
QueryFirst ==
    /\ pc = "get_notion_records"
    /\ \E raised \in BOOLEAN :
        LET response == DatabasesQuery(mirror, 1)
            call == Call("query", NoKey, 0, NoProperties, "keep", raised, FALSE)
        IN  IF raised
            THEN /\ Abort(call)
                 /\ UNCHANGED <<runVars>>
            ELSE /\ notion_response' = [has_more |-> response.has_more,
                                        next_cursor |-> response.next_cursor]
                 /\ notion_records' = response.results
                 /\ log' = Append(log, call)
                 /\ pc' = "query_loop"
                 /\ UNCHANGED <<zotero_records, existing_records, i, j, deleted_records,
                                reported, failed>>
    /\ UNCHANGED <<library, mirror, mirror0, previous, tagVars>>

\* A variant of the re-query that starts again from the first page.
StartCursor_Restart(response) == 1

\* The cursor of a re-query, line 195.
StartCursor(response) == response.next_cursor

\* get_notion_records, lines 191-198: one turn of the while loop.
QueryMore ==
    /\ pc = "query_loop"
    /\ notion_response.has_more
    /\ \E raised \in BOOLEAN :
        LET cursor == StartCursor(notion_response)
            response == DatabasesQuery(mirror, cursor)
            call == Call("query", NoKey, cursor, NoProperties, "keep", raised, FALSE)
        IN  IF raised
            THEN /\ Abort(call)
                 /\ UNCHANGED <<runVars>>
            ELSE /\ notion_response' = [has_more |-> response.has_more,
                                        next_cursor |-> response.next_cursor]
                 /\ notion_records' = notion_records \o response.results
                 /\ log' = Append(log, call)
                 /\ UNCHANGED <<pc, zotero_records, existing_records, i, j,
                                deleted_records, reported, failed>>
    /\ UNCHANGED <<library, mirror, mirror0, previous, tagVars>>

\* get_notion_records, lines 191 and 199-200: the loop ends, the list is returned.
QueryReturn ==
    /\ pc = "query_loop"
    /\ ~notion_response.has_more
    /\ pc' = NextStatement("get_notion_records")
    /\ UNCHANGED <<library, mirror, runVars, log, failed, mirror0, previous,
                   tagVars>>

\* get_zotero_records, lines 211-215: zot.everything(zot.top()).
FetchZotero ==
    /\ pc = "get_zotero_records"
    /\ \E raised \in BOOLEAN :
        LET call == Call("zotero", NoKey, 0, NoProperties, "keep", raised, FALSE)
        IN  IF raised
            THEN /\ Abort(call)
                 /\ UNCHANGED <<runVars>>
            ELSE /\ zotero_records' = library
                 /\ log' = Append(log, call)
                 /\ pc' = NextStatement(pc)
                 /\ UNCHANGED <<notion_response, notion_records, existing_records, i, j,
                                deleted_records, reported, failed>>
    /\ UNCHANGED <<library, mirror, mirror0, previous, tagVars>>

\* process_records, line 227.
BuildIndex ==
    /\ pc = "get_existing_notion_records"
    /\ LET built == get_existing_notion_records(notion_records)
           call == Call("index", NoKey, 0, NoProperties, "keep", built.raised, FALSE)
       IN  IF built.raised
           THEN /\ Abort(call)
                /\ UNCHANGED <<runVars>>
           ELSE /\ existing_records' = built.dict
                /\ log' = Append(log, call)
                /\ i' = 1
                /\ pc' = NextStatement(pc)
                /\ UNCHANGED <<notion_response, notion_records, zotero_records, j,
                               deleted_records, reported, failed>>
    /\ UNCHANGED <<library, mirror, mirror0, previous, tagVars>>

\* A write call: it returns, or it raises; a call that raises may still
\* have been carried out by the service.
Outcomes == {"returned", "raised", "raised_after_write"}

\* process_records, lines 229-250: one turn of the loop over zotero_records.
ReconcileStep ==
    /\ pc = "reconcile"
    /\ i <= Len(zotero_records)
    /\ LET record == zotero_records[i]
           decision == Decide(record, existing_records)
           properties == create_post_objects(record)
       IN  CASE decision = "create" ->
                  \E outcome \in Outcomes :
                    LET call == Call("create", record.data.key, 0, properties, "keep",
                                     outcome # "returned", outcome # "raised")
                    IN  /\ mirror' = IF outcome # "raised"
                                     THEN PagesCreate(mirror, properties) ELSE mirror
                        /\ IF outcome = "returned"
                           THEN /\ log' = Append(log, call)
                                /\ i' = i + 1
                                /\ UNCHANGED <<pc, failed>>
                           ELSE /\ Abort(call)
                                /\ UNCHANGED i
             [] decision = "update" ->
                  \E outcome \in Outcomes :
                    LET page_id == DictGet(existing_records, record.data.key).page_id
                        call == Call("update", record.data.key, page_id, properties, "keep",
                                     outcome # "returned", outcome # "raised")
                    IN  /\ mirror' = IF outcome # "raised"
                                     THEN PagesUpdate(mirror, page_id, properties)
                                     ELSE mirror
                        /\ IF outcome = "returned"
                           THEN /\ log' = Append(log, call)
                                /\ i' = i + 1
                                /\ UNCHANGED <<pc, failed>>
                           ELSE /\ Abort(call)
                                /\ UNCHANGED i
             [] OTHER ->
                  /\ i' = i + 1
                  /\ UNCHANGED <<mirror, pc, log, failed>>
    /\ UNCHANGED <<library, notion_response, notion_records, zotero_records,
                   existing_records, j, deleted_records, reported, mirror0, previous, tagVars>>

\* process_records, line 252: the loop is over, find_removed_records is called.
ReconcileReturn ==
    /\ pc = "reconcile"
    /\ i > Len(zotero_records)
    /\ pc' = NextStatement(pc)
    /\ j' = 1
    /\ deleted_records' = <<>>
    /\ UNCHANGED <<library, mirror, notion_response, notion_records, zotero_records,
                   existing_records, i, reported, log, failed, mirror0, previous,
                   tagVars>>

\* find_removed_records, lines 156-172: one turn of the loop over the index.
FlagStep ==
    /\ pc = "find_removed_records"
    /\ j <= Len(existing_records)
    /\ LET key == existing_records[j].key
           record == existing_records[j]
       IN  IF IsRemoved(key, KeysInZotero(zotero_records))
           THEN \E outcome \in Outcomes :
                  LET call == Call("flag", key, record.page_id, DeletedProperties,
                                   DeletedIcon, outcome # "returned", outcome # "raised")
                  IN  /\ deleted_records' = Append(deleted_records, key)
                      /\ mirror' = IF outcome # "raised"
                                   THEN PagesUpdate(mirror, record.page_id,
                                                    DeletedProperties)
                                   ELSE mirror
                      /\ IF outcome = "returned"
                         THEN /\ log' = Append(log, call)
                              /\ j' = j + 1
                              /\ UNCHANGED <<pc, failed>>
                         ELSE /\ Abort(call)
                              /\ UNCHANGED j
           ELSE /\ j' = j + 1
                /\ UNCHANGED <<mirror, pc, deleted_records, log, failed>>
    /\ UNCHANGED <<library, notion_response, notion_records, zotero_records,
                   existing_records, i, reported, mirror0, previous, tagVars>>

\* find_removed_records, lines 173-176, and the end of the script.
FlagReturn ==
    /\ pc = "find_removed_records"
    /\ j > Len(existing_records)
    /\ reported' = deleted_records
    /\ pc' = NextStatement(pc)
    /\ UNCHANGED <<library, mirror, notion_response, notion_records, zotero_records,
                   existing_records, i, j, deleted_records, log, failed, mirror0, previous,
                   tagVars>>

Next ==
    \/ StartRun
    \/ QueryFirst
    \/ QueryMore
    \/ QueryReturn
    \/ FetchZotero
    \/ BuildIndex
    \/ ReconcileStep
    \/ ReconcileReturn
    \/ FlagStep
    \/ FlagReturn

Spec == Init /\ [][Next]_vars

(***************************************************************************)
(* The tag filter of create_post_objects on its own: every list of at most *)
(* MaxTags tags is mapped once.                                            *)
(***************************************************************************)
TagNames == {"a", "b", "_tablet", "_tablet_modified"}

TagUniverse == {ManualTag(name) : name \in TagNames} \cup {AutomaticTag(name) : name \in TagNames}

TagInit ==
    /\ library = <<>>
    /\ mirror = <<>>
    /\ pc = "create_post_objects"
    /\ notion_response = [has_more |-> FALSE, next_cursor |-> 0]
    /\ notion_records = <<>>
    /\ zotero_records = <<>>
    /\ existing_records = <<>>
    /\ i = 1
    /\ j = 1
    /\ deleted_records = <<>>
    /\ reported = <<>>
    /\ log = <<>>
    /\ failed = FALSE
    /\ mirror0 = <<>>
    /\ previous = "other"
    /\ tagsIn \in SeqsUpTo(TagUniverse, MaxTags)
    /\ tagsOut = <<>>
    /\ tagsDone = FALSE

MapTags ==
    /\ pc = "create_post_objects"
    /\ ~tagsDone
    /\ tagsOut' = create_post_objects(
                      [key |-> "K1",
                       data |-> [key |-> "K1", version |-> 1, tags |-> tagsIn]]).Tags
    /\ tagsDone' = TRUE
    /\ UNCHANGED <<library, mirror, pc, runVars, log, failed, mirror0, previous, tagsIn>>

TagNext == MapTags

TagSpec == TagInit /\ [][TagNext]_vars

(***************************************************************************)
(* Vocabulary of the properties.                                           *)
(***************************************************************************)
Calls(op) == {n \in DOMAIN log : log[n].op = op}

CallsFor(op, key) == {n \in Calls(op) : log[n].key = key}

WriteCalls == Calls("create") \cup Calls("update") \cup Calls("flag")

Returned(op) == {n \in Calls(op) : ~log[n].raised}

\* The keys of the fetched source collection.
SourceKeys == {zotero_records[n].data.key : n \in DOMAIN zotero_records}

LibraryKeys == {library[n].data.key : n \in DOMAIN library}

\* The entries of the mirror index for a key.
Indexed(key) == {m \in DOMAIN existing_records : existing_records[m].key = key}

\* The pages of a database that carry a key.
PagesOf(db, key) == {p \in DOMAIN db : db[p].ZoteroKey = <<key>>}

UniqueKeys(db) == \A k \in Keys : Cardinality(PagesOf(db, k)) <= 1

Sentinel == <<[name |-> "Deleted from Zotero"]>>

\* The number of queries that list a database of n pages.
QueriesFor(n) == IF n = 0 THEN 1 ELSE (n + PageSize - 1) \div PageSize

\* C1: for every source entry exactly one of create, update and no call is
\* chosen, by the presence of its key in the index and the equality of the
\* versions alone: key absent, one create; key present and version
\* different (higher or lower), one update of the indexed page; key present
\* and version equal, no call.  An update is issued iff the versions differ.
C1_Partition ==
    \A n \in DOMAIN zotero_records :
        LET record == zotero_records[n]
            key == record.data.key
            present == Indexed(key) # {}
            differs == \E m \in Indexed(key) :
                           existing_records[m].version # record.data.version
            creates == CallsFor("create", key)
            updates == CallsFor("update", key)
        IN  /\ Cardinality(creates) + Cardinality(updates) <= 1
            /\ creates # {} => ~present
            /\ updates # {} => /\ present
                               /\ differs
                               /\ \A u \in updates : \A m \in Indexed(key) :
                                      log[u].page = existing_records[m].page_id
            /\ n < i => /\ ~present => Cardinality(creates) = 1
                        /\ differs => Cardinality(updates) = 1
                        /\ (present /\ ~differs) => creates \cup updates = {}

C1_Witness ==
    /\ pc = "done"
    /\ \E n \in DOMAIN zotero_records : \E m \in Indexed(zotero_records[n].data.key) :
           /\ existing_records[m].version > zotero_records[n].data.version
           /\ CallsFor("update", zotero_records[n].data.key) # {}
    /\ \E n \in DOMAIN zotero_records : \E m \in Indexed(zotero_records[n].data.key) :
           /\ existing_records[m].version = zotero_records[n].data.version
           /\ CallsFor("update", zotero_records[n].data.key) = {}

\* C2: a run that follows a run ended without exception, the library
\* unchanged in between, issues no create and no reconcile update; its only
\* writes are the flag updates, issued again, of pages whose key is not in
\* the source.
C2_Idempotence ==
    previous = "rerun" =>
        /\ Calls("create") = {}
        /\ Calls("update") = {}
        /\ \A f \in Calls("flag") :
               /\ log[f].key \notin LibraryKeys
               /\ log[f].page \in PagesOf(mirror0, log[f].key)
               /\ mirror0[log[f].page].Tags = Sentinel

C2_Witness ==
    /\ previous = "rerun"
    /\ pc = "done"
    /\ Calls("flag") # {}
    /\ \E n \in DOMAIN library : Cardinality(PagesOf(mirror, library[n].data.key)) = 1
    /\ Len(mirror) >= 2

\* C3: in the flagging pass a flag update (Tags replaced by the single tag
\* "Deleted from Zotero", and the icon) is issued for an index entry iff its
\* key is not among the keys of the source collection; the reported keys are
\* exactly those; no page of the mirror is ever removed.
C3_Flagging ==
    LET keys == {zotero_records[n].key : n \in DOMAIN zotero_records}
        removed == {m \in DOMAIN existing_records : existing_records[m].key \notin keys}
    IN  /\ \A f \in Calls("flag") :
               /\ \E m \in removed : /\ existing_records[m].key = log[f].key
                                     /\ existing_records[m].page_id = log[f].page
               /\ log[f].properties = [Tags |-> Sentinel]
               /\ log[f].icon = "cross_mark"
        /\ \A m \in DOMAIN existing_records :
               Cardinality(CallsFor("flag", existing_records[m].key)) <= 1
        /\ \A m \in removed :
               m < j => Cardinality(CallsFor("flag", existing_records[m].key)) = 1
        /\ pc = "done" =>
               /\ \A m \in removed : CallsFor("flag", existing_records[m].key) # {}
               /\ {reported[n] : n \in DOMAIN reported}
                      = {existing_records[m].key : m \in removed}
               /\ Len(reported) = Cardinality(removed)
        /\ Len(mirror) >= Len(mirror0)
        /\ \A p \in DOMAIN mirror0 : mirror[p].id = mirror0[p].id

C3_Witness ==
    /\ pc = "done"
    /\ reported # <<>>
    /\ \E m \in DOMAIN existing_records :
           /\ existing_records[m].key \in SourceKeys
           /\ CallsFor("flag", existing_records[m].key) = {}

\* C4: from a mirror in which no two pages share a key, no run, whether it
\* ends or is aborted by a failure, leaves two pages that share a key, and
\* no run issues two create calls for one key.
C4_UniqueKeys ==
    UniqueKeys(mirror0) =>
        /\ UniqueKeys(mirror)
        /\ \A k \in Keys : Cardinality(CallsFor("create", k)) <= 1

C4_Witness ==
    /\ previous = "retry"
    /\ UniqueKeys(mirror0)
    /\ Len(mirror0) >= 1
    /\ pc = "done"
    /\ Len(mirror) = Cardinality(Keys)
    /\ Calls("create") # {}

\* The place of a call in the order of a run, as the spec gives it (source
\* fetch first) and as the amended claim gives it (mirror fetch first).
RankClaimed(op) ==
    CASE op = "zotero" -> 1
      [] op = "query" -> 2
      [] op = "index" -> 3
      [] op \in {"create", "update"} -> 4
      [] op = "flag" -> 5

RankAmended(op) ==
    CASE op = "query" -> 1
      [] op = "zotero" -> 2
      [] op = "index" -> 3
      [] op \in {"create", "update"} -> 4
      [] op = "flag" -> 5

BothFetchesBeforeWrites ==
    WriteCalls # {} =>
        /\ Cardinality(Returned("query")) = QueriesFor(Len(mirror0))
        /\ Cardinality(Returned("zotero")) = 1
        /\ Cardinality(Returned("index")) = 1

\* C5 as claimed: the source fetch, then the mirror fetch, then the index
\* build, then the reconciliation pass, then the flagging pass.
C5_AsClaimed ==
    /\ \A a, b \in DOMAIN log : a < b => RankClaimed(log[a].op) <= RankClaimed(log[b].op)
    /\ BothFetchesBeforeWrites

\* C5 (amended): the phases of a run are strictly ordered: the whole mirror
\* fetch, then the whole source fetch, then the index build, then the
\* reconciliation pass, then the flagging pass; no create or reconcile
\* update follows a flag update and no write precedes the end of either
\* fetch.
C5_PhaseOrder ==
    /\ \A a, b \in DOMAIN log : a < b => RankAmended(log[a].op) <= RankAmended(log[b].op)
    /\ BothFetchesBeforeWrites

C5_Witness ==
    /\ pc = "done"
    /\ Cardinality(Calls("query")) >= 2
    /\ Calls("update") # {}
    /\ Calls("flag") # {}

\* C6: get_notion_records queries once and queries again with the last
\* cursor for as long as the last response has has_more; it stops at the
\* first response without has_more, and returns the results of all the
\* responses in the order of arrival, no page of results dropped or
\* repeated.
C6_Pagination ==
    LET asked == Cardinality(Returned("query"))
        listed == Min(asked * PageSize, Len(mirror0))
    IN  /\ Cardinality(Calls("query")) <= QueriesFor(Len(mirror0))
        /\ \A q \in Calls("query") :
               log[q].page = IF q = 1 THEN 0 ELSE (q - 1) * PageSize + 1
        /\ pc = "query_loop" =>
               /\ notion_records = SubSeq(mirror0, 1, listed)
               /\ notion_response.has_more <=> listed < Len(mirror0)
        /\ pc \in {"get_zotero_records", "get_existing_notion_records", "reconcile",
                   "find_removed_records", "done"} =>
               /\ asked = QueriesFor(Len(mirror0))
               /\ notion_records = mirror0

C6_Witness ==
    /\ pc = "get_zotero_records"
    /\ Cardinality(Calls("query")) >= 3
    /\ Len(notion_records) = 3

\* C7: a remote failure is fatal: the call that raises is the last call of
\* the run, nothing is retried, and the writes made before it stay.
C7_Fatal ==
    /\ \A n \in DOMAIN log : log[n].raised => n = Len(log)
    /\ failed <=> (log # <<>> /\ log[Len(log)].raised)
    /\ failed => pc = "aborted"
    /\ Len(mirror) = Len(mirror0) + Cardinality({n \in Calls("create") : log[n].applied})
    /\ \A n \in Calls("create") :
           log[n].applied =>
               \E p \in DOMAIN mirror :
                   /\ p > Len(mirror0)
                   /\ mirror[p].ZoteroKey = log[n].properties.ZoteroKey
                   /\ mirror[p].ZoteroVersion = log[n].properties.ZoteroVersion
                   /\ mirror[p].Tags = log[n].properties.Tags
    /\ \A n \in Calls("update") :
           log[n].applied =>
               /\ mirror[log[n].page].ZoteroVersion = log[n].properties.ZoteroVersion
               /\ mirror[log[n].page].Tags = log[n].properties.Tags
    /\ \A n \in Calls("flag") :
           log[n].applied => mirror[log[n].page].Tags = Sentinel
    /\ \A n \in WriteCalls : ~log[n].applied => log[n].raised

C7_Witness ==
    /\ pc = "aborted"
    /\ Len(log) >= 2
    /\ log[Len(log)].op = "update"
    /\ log[Len(log)].raised
    /\ ~log[Len(log)].applied
    /\ log[Len(log) - 1].op = "create"
    /\ log[Len(log) - 1].applied
    /\ Len(mirror) = Len(mirror0) + 1
    /\ mirror[log[Len(log)].page].ZoteroVersion # log[Len(log)].properties.ZoteroVersion

\* C8: if a page of the mirror snapshot has no "Zotero: Key" text, wherever
\* it is in the snapshot, the index build raises and the run is aborted
\* before any create, update or flag call: the mirror is left as it was.
C8_CorruptMirror ==
    (\E p \in DOMAIN mirror0 : mirror0[p].ZoteroKey = <<>>) =>
        /\ WriteCalls = {}
        /\ mirror = mirror0
        /\ existing_records = <<>>
        /\ pc \notin {"reconcile", "find_removed_records", "done"}
        /\ \A n \in Calls("index") : log[n].raised

C8_Witness ==
    /\ pc = "aborted"
    /\ log # <<>>
    /\ log[Len(log)].op = "index"
    /\ Len(mirror0) = 2
    /\ mirror0[1].ZoteroKey # <<>>
    /\ mirror0[2].ZoteroKey = <<>>
    /\ library # <<>>

\* The n-th tag of the input is kept.
Kept(n) ==
    /\ "type" \notin DOMAIN tagsIn[n]
    /\ tagsIn[n].tag \notin {"_tablet", "_tablet_modified"}

KeptBefore(n) == Cardinality({m \in 1..(n - 1) : Kept(m)})

\* C9: a tag of the source entry is in the mapped Tags iff it has no "type"
\* field and its text is neither "_tablet" nor "_tablet_modified"; the tags
\* kept are in the order of the source.
C9_TagFilter ==
    tagsDone =>
        /\ Len(tagsOut) = Cardinality({n \in DOMAIN tagsIn : Kept(n)})
        /\ \A n \in DOMAIN tagsIn :
               Kept(n) => tagsOut[KeptBefore(n) + 1] = [name |-> tagsIn[n].tag]

C9_Witness ==
    /\ tagsDone
    /\ Len(tagsIn) = 3
    /\ tagsIn[1] = [tag |-> "b"]
    /\ "type" \in DOMAIN tagsIn[2]
    /\ tagsIn[3] = [tag |-> "a"]
    /\ tagsOut = <<[name |-> "b"], [name |-> "a"]>>

\* C10: from a mirror with unique keys, after a run that ends without
\* exception every source entry has exactly one page with its key, and the
\* version of that page is the version of the entry; the pages whose key is
\* not in the source keep their version and are the pages flagged in the
\* run.
C10_Convergence ==
    (pc = "done" /\ ~failed /\ UniqueKeys(mirror0)) =>
        /\ \A n \in DOMAIN library :
               /\ Cardinality(PagesOf(mirror, library[n].data.key)) = 1
               /\ \A p \in PagesOf(mirror, library[n].data.key) :
                      mirror[p].ZoteroVersion = library[n].data.version
        /\ \A p \in DOMAIN mirror :
               (\A k \in LibraryKeys : mirror[p].ZoteroKey # <<k>>) =>
                   /\ p \in DOMAIN mirror0
                   /\ mirror[p].ZoteroVersion = mirror0[p].ZoteroVersion
                   /\ mirror[p].Tags = Sentinel
                   /\ \E f \in Calls("flag") : log[f].page = mirror[p].id
        /\ \A f \in Calls("flag") :
               \A k \in LibraryKeys : mirror[log[f].page].ZoteroKey # <<k>>

C10_Witness ==
    /\ pc = "done"
    /\ ~failed
    /\ UniqueKeys(mirror0)
    /\ Calls("update") # {}
    /\ Calls("flag") # {}
    /\ \E p \in DOMAIN mirror0 : \E q \in DOMAIN mirror0 :
           /\ mirror0[p].ZoteroVersion # mirror[p].ZoteroVersion
           /\ mirror0[q].Tags # Sentinel
           /\ mirror[q].Tags = Sentinel

====
